---- MODULE Spec2Model ----
(***************************************************************************)
(* One MLLP exchange of hl7sender: send_hl7_message_with_config of         *)
(* src/main.rs, statement by statement, against a TCP peer.                *)
(*                                                                         *)
(* Bytes are integers 0..255, byte strings are sequences of bytes.  An     *)
(* Option<T> is a sequence of length at most one (<<>> is None).           *)
(* io::ErrorKind values are strings carrying the Rust variant names.       *)
(***************************************************************************)
EXTENDS Integers, Sequences, FiniteSets, TLC

VARIABLES
    pc,              \* the statement the exchange executes next
    message,         \* message: &str, as its UTF-8 bytes
    timeout,         \* config.timeout, in seconds
    connects,        \* calls of TcpStream::connect so far
    stream,          \* stream: "none" before connect, "open", "closed" once dropped
    read_timeout,    \* the socket's read timeout, Option<Duration>
    write_timeout,   \* the socket's write timeout, Option<Duration>
    framed_message,  \* framed_message, <<>> before the format! statement
    written,         \* the bytes the socket has accepted from write_all
    write_calls,     \* calls of write_all so far
    flushed,         \* stream.flush() returned Ok
    peer,            \* "listening" | "replying" | "streaming"
    reply,           \* the bytes the peer delivers before it stops
    pending,         \* the part of reply not yet returned by a read
    buffer,          \* buffer: Vec<u8>
    elided,          \* TRUE when buffer holds only the last bytes of the Vec
    reads,           \* calls of stream.read so far
    ret,             \* what the last stream.read returned
    last_read,       \* the arm of the match the last read took
    response,        \* response: the slice handed to String::from_utf8
    result,          \* the io::Result<String> the function returns
    run_pc,          \* where run() stands; "none" when the exchange is called directly
    file,            \* the file at the path args.message
    run_result       \* the Result<(), String> run() returns

vars == <<pc, message, timeout, connects, stream, read_timeout, write_timeout,
          framed_message, written, write_calls, flushed, peer, reply,
          pending, buffer, elided, reads, ret, last_read, response, result,
          run_pc, file, run_result>>

\* The state of run() around the exchange.
runVars == <<run_pc, file, run_result>>

----------------------------------------------------------------------------
(* Program constants *)

DEFAULT_TIMEOUT == 30
BUFFER_SIZE == 4096

\* "\x0B" and "\x1C\x0D" of the format string and of the strip calls.
START == <<11>>
END == <<28, 13>>

----------------------------------------------------------------------------
(* Bounds of the model *)

\* Longest text of a message, in bytes, not counting framing bytes the
\* message may itself begin or end with.
MaxMsgLen == 1
\* Longest payload of a reply, in bytes, not counting the framing bytes the
\* peer may put around it.
MaxReplyLen == 2
\* Against the peer that never stops sending, the Vec grows without end:
\* the model then keeps this many of its last bytes (the loop looks at the
\* last two) and counts the reads up to MaxReads, which stands for that many
\* or more.
MaxKept == 2
MaxReads == 7

\* The byte the text of a message is made of: "A" (a &str is valid UTF-8).
MsgBytes == {65}
\* Bytes the payload of a reply is made of: VT, CR, FS, "A" and 0xFF, which
\* no UTF-8 text contains.
ReplyBytes == {11, 13, 28, 65, 255}

SeqsUpTo(S, n) == UNION {[1..k -> S] : k \in 0..n}

\* body alone, after START, before END, and between the two.
Framings(body) ==
    {pre \o body \o suf : pre \in {<<>>, START}, suf \in {<<>>, END}}

\* The messages the exchange is called with: a text, which may begin with
\* the START byte and end with the END sequence of the framing itself.
Messages == UNION {Framings(t) : t \in SeqsUpTo(MsgBytes, MaxMsgLen)}

\* The byte streams a peer delivers before it closes or stalls, whatever
\* the message was: any payload, framed, half framed or bare.
Replies == UNION {Framings(p) : p \in SeqsUpTo(ReplyBytes, MaxReplyLen)}

\* Config::default(), one second, and the zero duration run() can build.
Timeouts == {0, 1, DEFAULT_TIMEOUT}

Min(a, b) == IF a < b THEN a ELSE b

----------------------------------------------------------------------------
(* Slices *)

\* <[u8]>::starts_with
StartsWith(s, p) == Len(s) >= Len(p) /\ SubSeq(s, 1, Len(p)) = p

\* <[u8]>::ends_with
EndsWith(s, p) ==
    Len(s) >= Len(p) /\ SubSeq(s, Len(s) - Len(p) + 1, Len(s)) = p

\* Variant: every leading p is removed (trim_start_matches), not one.
RECURSIVE StripPrefixAll(_, _)
StripPrefixAll(s, p) ==
    IF p # <<>> /\ StartsWith(s, p)
    THEN StripPrefixAll(SubSeq(s, Len(p) + 1, Len(s)), p)
    ELSE s

\* s.strip_prefix(p).unwrap_or(s)
StripPrefix(s, p) ==
    IF StartsWith(s, p) THEN SubSeq(s, Len(p) + 1, Len(s)) ELSE s

\* Variant: every trailing p is removed (trim_end_matches), not one.
RECURSIVE StripSuffixAll(_, _)
StripSuffixAll(s, p) ==
    IF p # <<>> /\ EndsWith(s, p)
    THEN StripSuffixAll(SubSeq(s, 1, Len(s) - Len(p)), p)
    ELSE s

\* s.strip_suffix(p).unwrap_or(s)
StripSuffix(s, p) ==
    IF EndsWith(s, p) THEN SubSeq(s, 1, Len(s) - Len(p)) ELSE s

----------------------------------------------------------------------------
(* Framing, deframing, decoding *)

\* Variant: a message that already ends with END gets no second one.
FrameDedupEnd(m) == START \o m \o (IF EndsWith(m, END) THEN <<>> ELSE END)

\* format!("\x0B{}\x1C\x0D", message).as_bytes()
Frame(m) == START \o m \o END

\* buffer.strip_prefix(b"\x0B").unwrap_or(&buffer), then
\* response.strip_suffix(b"\x1C\x0D").unwrap_or(response)
Deframe(b) == StripSuffix(StripPrefix(b, START), END)

\* A UTF-8 continuation byte, 0x80..0xBF.
IsCont(b) == b >= 128 /\ b <= 191

\* The bytes the scalar value starting with lead byte s[i] occupies when it
\* is well formed, 0 when it is not (core::str::from_utf8's validation).
Utf8Width(s, i) ==
    LET b == s[i]
        at(j) == IF i + j <= Len(s) THEN s[i + j] ELSE 0
    IN  IF b < 128 THEN 1
        ELSE IF b >= 194 /\ b <= 223
             THEN IF IsCont(at(1)) THEN 2 ELSE 0
        ELSE IF b >= 224 /\ b <= 239
             THEN IF /\ \/ b = 224 /\ at(1) >= 160 /\ at(1) <= 191
                        \/ b >= 225 /\ b <= 236 /\ IsCont(at(1))
                        \/ b = 237 /\ at(1) >= 128 /\ at(1) <= 159
                        \/ b >= 238 /\ IsCont(at(1))
                     /\ IsCont(at(2))
                  THEN 3 ELSE 0
        ELSE IF b >= 240 /\ b <= 244
             THEN IF /\ \/ b = 240 /\ at(1) >= 144 /\ at(1) <= 191
                        \/ b >= 241 /\ b <= 243 /\ IsCont(at(1))
                        \/ b = 244 /\ at(1) >= 128 /\ at(1) <= 143
                     /\ IsCont(at(2))
                     /\ IsCont(at(3))
                  THEN 4 ELSE 0
        ELSE 0

RECURSIVE Utf8ValidFrom(_, _)
Utf8ValidFrom(s, i) ==
    IF i > Len(s) THEN TRUE
    ELSE LET w == Utf8Width(s, i)
         IN  w > 0 /\ Utf8ValidFrom(s, i + w)

\* String::from_utf8(bytes).is_ok()
Utf8Valid(s) == Utf8ValidFrom(s, 1)

----------------------------------------------------------------------------
(* io::Result<String> *)

NoResult == [tag |-> "None", text |-> <<>>, kind |-> "", error |-> ""]

\* Ok(String): the text as its bytes.
Ok(text) == [tag |-> "Ok", text |-> text, kind |-> "", error |-> ""]

\* Err(io::Error): its kind and what it carries ("os" for an error of the
\* operating system passed on by `?`, else the custom payload).
Err(kind, error) == [tag |-> "Err", text |-> <<>>, kind |-> kind, error |-> error]

\* The kinds io::Error::from_raw_os_error gives the errors of the
\* operating system: one for each errno std knows, Uncategorized for every
\* other.  A `?` passes each of them on as it is.
OsErrKinds ==
    {"AddrInUse", "AddrNotAvailable", "AlreadyExists", "ArgumentListTooLong",
     "BrokenPipe", "ConnectionAborted", "ConnectionRefused",
     "ConnectionReset", "CrossesDevices", "Deadlock", "DirectoryNotEmpty",
     "ExecutableFileBusy", "FileTooLarge", "FilesystemLoop",
     "HostUnreachable", "InProgress", "Interrupted", "InvalidFilename",
     "InvalidInput", "IsADirectory", "NetworkDown", "NetworkUnreachable",
     "NotADirectory", "NotConnected", "NotFound", "NotSeekable",
     "OutOfMemory", "PermissionDenied", "QuotaExceeded",
     "ReadOnlyFilesystem", "ResourceBusy", "StaleNetworkFileHandle",
     "StorageFull", "TimedOut", "TooManyLinks", "Unsupported", "WouldBlock",
     "Uncategorized"}

\* The errors of the system calls behind TcpStream::connect (socket,
\* connect): any but EINTR, after which std calls connect again.
ConnectErrKinds == OsErrKinds \ {"Interrupted"}

\* The errors TcpStream::connect((host, port)) returns: the host holds a
\* NUL byte or resolves to no address (no system call is made), the name
\* cannot be looked up, or a system call fails.
ConnectErrors ==
    {Err("InvalidInput", "file name contained an unexpected NUL byte"),
     Err("InvalidInput", "could not resolve to any addresses"),
     Err("Uncategorized", "failed to lookup address information")}
        \cup {Err(k, "os") : k \in ConnectErrKinds}

\* The errors write_all returns: its own WriteZero when the socket takes no
\* byte, or the error of the send system call, WouldBlock when the write
\* timeout expires (write_all itself calls send again after EINTR).
WriteErrKinds == {"WriteZero"} \cup (OsErrKinds \ {"Interrupted"})

\* The errors flush returns: none, a TcpStream has nothing to flush and
\* its flush is Ok(()).
FlushErrKinds == {}

\* The errors of the recv system call other than WouldBlock, which the
\* read timeout gives.
ReadErrKinds == OsErrKinds \ {"WouldBlock"}

WriteErrPayload(k) ==
    IF k = "WriteZero" THEN "failed to write whole buffer" ELSE "os"

\* Variant: String::from_utf8_lossy, here with the bytes that are no text
\* left out.
DecodeLossy(bytes) == Ok(SelectSeq(bytes, LAMBDA b : b < 128))

\* String::from_utf8(response.to_vec())
\*     .map_err(|e| io::Error::new(io::ErrorKind::InvalidData, e))
Decode(bytes) ==
    IF Utf8Valid(bytes) THEN Ok(bytes)
    ELSE Err("InvalidData", "FromUtf8Error")

\* Variant: the read's own WouldBlock kind is kept for the empty response.
EmptyResponseErrorWouldBlock == Err("WouldBlock", "Read timed out")

\* io::Error::new(io::ErrorKind::TimedOut, "Read timed out")
EmptyResponseError == Err("TimedOut", "Read timed out")

\* Variant: the buffer holds the last read only, nothing is accumulated.
ExtendOverwrite(buf, bytes) == bytes

\* Variant: the bytes read are put in front of the buffer.
ExtendPrepend(buf, bytes) == bytes \o buf

\* buffer.extend_from_slice(&temp_buffer[..n])
Extend(buf, bytes) == buf \o bytes

Terminal == {"Success", "Failed"}

----------------------------------------------------------------------------
(* The peer *)

\* io::Result<usize> of stream.read, with the bytes put into temp_buffer.
NoRet == [tag |-> "None", bytes |-> <<>>, kind |-> ""]
RetOk(bytes) == [tag |-> "Ok", bytes |-> bytes, kind |-> ""]
RetErr(kind) == [tag |-> "Err", bytes |-> <<>>, kind |-> kind]

\* A read that fails with an error other than WouldBlock, which can happen
\* at every read, bytes pending or not.
ReadErrors == {RetErr(k) : k \in ReadErrKinds}

\* What stream.read(&mut temp_buffer) can return: some first bytes of what
\* is pending, at most BUFFER_SIZE of them; with nothing pending, Ok(0)
\* when the peer has closed the connection and WouldBlock when the peer
\* stays silent until the read timeout expires; or an error.
ReadOutcomes ==
    (IF pending # <<>>
     THEN {RetOk(SubSeq(pending, 1, n)) :
             n \in 1..Min(Len(pending), BUFFER_SIZE)}
     ELSE {RetOk(<<>>), RetErr("WouldBlock")})
        \cup ReadErrors

----------------------------------------------------------------------------
(* The exchange *)

\* No file: the exchange is called directly, as the tests call it.
NoFile == [state |-> "none", content |-> <<>>]

\* What run() can find at args.message: no file that can be opened, or a
\* file holding a text or bytes that are no UTF-8 text.
Files ==
    {[state |-> "missing", content |-> <<>>]} \cup
    {[state |-> "present", content |-> c] :
        c \in SeqsUpTo(MsgBytes, MaxMsgLen) \cup {<<255>>}}

\* Either send_hl7_message_with_config is called with a message, or run()
\* starts with the path of a file: message is then the empty String::new()
\* and the exchange has not been entered.
Init ==
    /\ \/ /\ run_pc = "none"
          /\ file = NoFile
          /\ pc = "Connect"
          /\ message \in Messages
       \/ /\ run_pc = "OpenFile"
          /\ file \in Files
          /\ pc = "Idle"
          /\ message = <<>>
    /\ run_result = [tag |-> "None", text |-> ""]
    /\ timeout \in Timeouts
    /\ connects = 0
    /\ stream = "none"
    /\ read_timeout = <<>>
    /\ write_timeout = <<>>
    /\ framed_message = <<>>
    /\ written = <<>>
    /\ write_calls = 0
    /\ flushed = FALSE
    /\ peer = "listening"
    /\ reply = <<>>
    /\ pending = <<>>
    /\ buffer = <<>>
    /\ elided = FALSE
    /\ reads = 0
    /\ ret = NoRet
    /\ last_read = "none"
    /\ response = <<>>
    /\ result = NoResult

\* The function returns: stream goes out of scope and the socket is closed.
Dropped(st) == IF st = "open" THEN "closed" ELSE st

\* return Err(e): the function ends with the error.
Fail(e) == pc' = "Failed" /\ result' = e /\ stream' = Dropped(stream)

\* Variant: a failed connect is reported as the TimedOut of the
\* empty-response check.
ConnectFailureAsTimedOut(e) == Fail(Err("TimedOut", "Read timed out"))

\* Variant: a failed connect is tried again.
ConnectFailureRetry(e) == pc' = "Connect" /\ UNCHANGED <<result, stream>>

\* The `?` of the connect statement: the error is returned as it is.
ConnectFailure(e) == Fail(e)

\* let mut stream = TcpStream::connect((host, port))?;
Connect ==
    /\ UNCHANGED <<runVars, elided>>
    /\ pc = "Connect"
    /\ connects' = connects + 1
    /\ \/ pc' = "SetReadTimeout" /\ stream' = "open" /\ UNCHANGED result
       \/ \E e \in ConnectErrors : ConnectFailure(e)
    /\ UNCHANGED <<message, timeout, read_timeout, write_timeout,
                   framed_message, written, write_calls, flushed, peer,
                   reply, pending, buffer, reads, ret, last_read, response>>

\* Variant: the zero duration is taken, as "no timeout".
RejectsNothing(d) == FALSE

\* set_read_timeout and set_write_timeout return an Err for Some(d) when d
\* is the zero Duration.
RejectsDuration(d) == d = 0

\* Some(d) is refused with InvalidInput when d is zero, before any system
\* call; the setsockopt call behind it may fail as well.
SetTimeoutErrors(d) ==
    IF RejectsDuration(d) THEN {Err("InvalidInput", "cannot set a 0 duration timeout")}
    ELSE {Err(k, "os") : k \in OsErrKinds}

\* stream.set_read_timeout(Some(config.timeout))?;
SetReadTimeout ==
    /\ UNCHANGED <<runVars, elided>>
    /\ pc = "SetReadTimeout"
    /\ \/ /\ ~RejectsDuration(timeout)
          /\ read_timeout' = <<timeout>>
          /\ pc' = "SetWriteTimeout"
          /\ UNCHANGED <<result, stream>>
       \/ /\ \E e \in SetTimeoutErrors(timeout) : Fail(e)
          /\ UNCHANGED read_timeout
    /\ UNCHANGED <<message, timeout, connects, write_timeout, framed_message,
                   written, write_calls, flushed, peer, reply, pending,
                   buffer, reads, ret, last_read, response>>

\* Variant: the write timeout is set to the default, not to config.timeout.
SetWriteTimeoutDefault ==
    /\ UNCHANGED <<runVars, elided>>
    /\ pc = "SetWriteTimeout"
    /\ \/ /\ ~RejectsDuration(timeout)
          /\ write_timeout' = <<DEFAULT_TIMEOUT>>
          /\ pc' = "Frame"
          /\ UNCHANGED <<result, stream>>
       \/ /\ \E e \in SetTimeoutErrors(timeout) : Fail(e)
          /\ UNCHANGED write_timeout
    /\ UNCHANGED <<message, timeout, connects, read_timeout, framed_message,
                   written, write_calls, flushed, peer, reply, pending,
                   buffer, reads, ret, last_read, response>>

\* stream.set_write_timeout(Some(config.timeout))?;
SetWriteTimeout ==
    /\ UNCHANGED <<runVars, elided>>
    /\ pc = "SetWriteTimeout"
    /\ \/ /\ ~RejectsDuration(timeout)
          /\ write_timeout' = <<timeout>>
          /\ pc' = "Frame"
          /\ UNCHANGED <<result, stream>>
       \/ /\ \E e \in SetTimeoutErrors(timeout) : Fail(e)
          /\ UNCHANGED write_timeout
    /\ UNCHANGED <<message, timeout, connects, read_timeout, framed_message,
                   written, write_calls, flushed, peer, reply, pending,
                   buffer, reads, ret, last_read, response>>

\* let framed_message = format!("\x0B{}\x1C\x0D", message);
FrameMessage ==
    /\ UNCHANGED <<runVars, elided>>
    /\ pc = "Frame"
    /\ framed_message' = Frame(message)
    /\ pc' = "WriteAll"
    /\ UNCHANGED <<message, timeout, connects, read_timeout, write_timeout,
                   written, write_calls, flushed, peer, reply, pending,
                   buffer, reads, ret, last_read, response, result, stream>>

\* Variant: the result of write_all is dropped (no `?`), the exchange goes on
\* after a partial write.
WriteAllUnchecked ==
    /\ UNCHANGED <<runVars, elided>>
    /\ pc = "WriteAll"
    /\ write_calls' = write_calls + 1
    /\ \E n \in 0..Len(framed_message) :
          written' = written \o SubSeq(framed_message, 1, n)
    /\ pc' = "Flush"
    /\ UNCHANGED <<message, timeout, connects, stream, read_timeout,
                   write_timeout, framed_message, flushed, peer, reply,
                   pending, buffer, reads, ret, last_read, response,
                   result>>

\* Variant: a write_all that failed is called once more, with the whole
\* frame.
WriteAllRetry ==
    /\ UNCHANGED <<runVars, elided>>
    /\ pc = "WriteAll"
    /\ write_calls' = write_calls + 1
    /\ \/ /\ written' = written \o framed_message
          /\ pc' = "Flush"
          /\ UNCHANGED <<result, stream>>
       \/ \E n \in 0..(Len(framed_message) - 1), k \in WriteErrKinds :
             /\ written' = written \o SubSeq(framed_message, 1, n)
             /\ IF write_calls = 0
                THEN pc' = "WriteAll" /\ UNCHANGED <<result, stream>>
                ELSE Fail(Err(k, WriteErrPayload(k)))
    /\ UNCHANGED <<message, timeout, connects, read_timeout, write_timeout,
                   framed_message, flushed, peer, reply, pending,
                   buffer, reads, ret, last_read, response>>

\* stream.write_all(framed_message.as_bytes())?;  write_all hands the socket
\* the whole slice, or fails after the socket took only some first bytes.
WriteAll ==
    /\ UNCHANGED <<runVars, elided>>
    /\ pc = "WriteAll"
    /\ write_calls' = write_calls + 1
    /\ \/ /\ written' = written \o framed_message
          /\ pc' = "Flush"
          /\ UNCHANGED <<result, stream>>
       \/ \E n \in 0..(Len(framed_message) - 1), k \in WriteErrKinds :
             /\ written' = written \o SubSeq(framed_message, 1, n)
             /\ Fail(Err(k, WriteErrPayload(k)))
    /\ UNCHANGED <<message, timeout, connects, read_timeout, write_timeout,
                   framed_message, flushed, peer, reply, pending,
                   buffer, reads, ret, last_read, response>>

\* stream.flush()?;
Flush ==
    /\ UNCHANGED <<runVars, elided>>
    /\ pc = "Flush"
    /\ \/ flushed' = TRUE /\ pc' = "Read" /\ UNCHANGED <<result, stream>>
       \/ /\ \E k \in FlushErrKinds : Fail(Err(k, "os"))
          /\ UNCHANGED flushed
    /\ UNCHANGED <<message, timeout, connects, read_timeout, write_timeout,
                   framed_message, written, write_calls, peer, reply, pending,
                   buffer, reads, ret, last_read, response>>

\* The peer, having the frame, settles what it sends back.
PeerRespond ==
    /\ UNCHANGED <<runVars, elided>>
    /\ pc = "Read"
    /\ peer = "listening"
    /\ peer' = "replying"
    /\ \E r \in Replies : reply' = r /\ pending' = r
    /\ UNCHANGED <<pc, message, timeout, connects, stream, read_timeout,
                   write_timeout, framed_message, written, write_calls,
                   flushed, buffer, reads, ret, last_read, response, result>>

\* Variant: the END sequence is looked for in the bytes of the last read.
EndSeenInChunk(grown, chunk) == EndsWith(chunk, END)

\* Variant: the last byte alone, the carriage return, ends the loop.
EndSeenLastByte(grown, chunk) == grown # <<>> /\ grown[Len(grown)] = 13

\* if buffer.ends_with(b"\x1C\x0D"), buffer holding grown after the read
\* of chunk.
EndSeen(grown, chunk) == EndsWith(grown, END)

\* Variant: no read error ends the loop, every one is returned.
BreaksLoopNever(kind) == FALSE

\* Variant: every read error ends the loop (Err(_) => break).
BreaksLoopAlways(kind) == TRUE

\* Err(e) if e.kind() == io::ErrorKind::WouldBlock
BreaksLoop(kind) == kind = "WouldBlock"

\* The arms of `match stream.read(&mut temp_buffer)` for the outcome out,
\* grown being the buffer after extend_from_slice(&temp_buffer[..n]).
ReadMatch(out, grown) ==
    IF out.tag = "Ok" /\ out.bytes = <<>>
    THEN \* Ok(0) => break
         /\ last_read' = "eof"
         /\ pc' = "Finish"
         /\ UNCHANGED <<buffer, result, stream>>
    ELSE IF out.tag = "Ok"
    THEN \* Ok(n) => extend, and break when the buffer ends with END
         /\ last_read' = "data"
         /\ buffer' = grown
         /\ pc' = IF EndSeen(grown, out.bytes) THEN "Finish" ELSE "Read"
         /\ UNCHANGED <<result, stream>>
    ELSE IF BreaksLoop(out.kind)
    THEN \* Err(e) if e.kind() == WouldBlock => break
         /\ last_read' = "would_block"
         /\ pc' = "Finish"
         /\ UNCHANGED <<buffer, result, stream>>
    ELSE \* Err(e) => return Err(e)
         /\ last_read' = "error"
         /\ Fail(Err(out.kind, "os"))
         /\ UNCHANGED buffer

\* One turn of the receive loop.
Read ==
    /\ UNCHANGED <<runVars, elided>>
    /\ pc = "Read"
    /\ peer = "replying"
    /\ reads' = reads + 1
    /\ \E out \in ReadOutcomes :
          /\ ret' = out
          /\ pending' = SubSeq(pending, Len(out.bytes) + 1, Len(pending))
          /\ ReadMatch(out, Extend(buffer, out.bytes))
    /\ UNCHANGED <<message, timeout, connects, read_timeout, write_timeout,
                   framed_message, written, write_calls, flushed, peer, reply,
                   response>>

\* The empty-response check, the two strip calls and String::from_utf8.
Finish ==
    /\ UNCHANGED <<runVars, elided>>
    /\ pc = "Finish"
    /\ IF buffer = <<>>
       THEN /\ Fail(EmptyResponseError)
            /\ UNCHANGED response
       ELSE /\ response' = Deframe(buffer)
            /\ result' = Decode(response')
            /\ pc' = IF result'.tag = "Ok" THEN "Success" ELSE "Failed"
            /\ stream' = Dropped(stream)
    /\ UNCHANGED <<message, timeout, connects, read_timeout, write_timeout,
                   framed_message, written, write_calls, flushed, peer, reply,
                   pending, buffer, reads, ret, last_read>>

----------------------------------------------------------------------------
(* run() *)

\* Err(format!("<text>: {}", e)): the text before the colon.
RunErr(text) == [tag |-> "Err", text |-> text]

RunOk == [tag |-> "Ok", text |-> ""]

\* The exchange's state, which run() does not touch.
exchangeVars == <<timeout, connects, stream, read_timeout, write_timeout,
                  framed_message, written, write_calls, flushed, peer, reply,
                  pending, buffer, elided, reads, ret, last_read, response,
                  result>>

\* let mut file = File::open(&args.message)
\*     .map_err(|e| format!("Failed to open message file: {}", e))?;
RunOpenFile ==
    /\ run_pc = "OpenFile"
    /\ IF file.state = "missing"
       THEN /\ run_result' = RunErr("Failed to open message file")
            /\ run_pc' = "Done"
       ELSE /\ run_pc' = "ReadFile"
            /\ UNCHANGED run_result
    /\ UNCHANGED <<pc, message, file, exchangeVars>>

\* Variant: a file that cannot be read gives the empty message
\* (unwrap_or_default), and the exchange is called with it.
RunReadFileUnchecked ==
    /\ run_pc = "ReadFile"
    /\ message' = IF Utf8Valid(file.content) THEN file.content ELSE message
    /\ run_pc' = "Call"
    /\ pc' = "Connect"
    /\ UNCHANGED <<file, run_result, exchangeVars>>

\* file.read_to_string(&mut message)
\*     .map_err(|e| format!("Failed to read message file: {}", e))?;
\* and, the file read, the call of send_hl7_message_with_config.
RunReadFile ==
    /\ run_pc = "ReadFile"
    /\ IF Utf8Valid(file.content)
       THEN /\ message' = file.content
            /\ run_pc' = "Call"
            /\ pc' = "Connect"
            /\ UNCHANGED run_result
       ELSE /\ run_result' = RunErr("Failed to read message file")
            /\ run_pc' = "Done"
            /\ UNCHANGED <<pc, message>>
    /\ UNCHANGED <<file, exchangeVars>>

\* match send_hl7_message_with_config(..) {
\*     Ok(response) => { println!(..); println!(..); println!(..); Ok(()) }
\*     Err(e) => Err(format!("Failed to send HL7 message: {}", e)) }
\* println! panics when the standard output cannot be written: run() then
\* returns nothing.
RunReturn ==
    /\ run_pc = "Call"
    /\ pc \in Terminal
    /\ IF result.tag = "Ok"
       THEN \/ run_result' = RunOk /\ run_pc' = "Done"
            \/ run_pc' = "Panicked" /\ UNCHANGED run_result
       ELSE /\ run_result' = RunErr("Failed to send HL7 message")
            /\ run_pc' = "Done"
    /\ UNCHANGED <<pc, message, file, exchangeVars>>

Next ==
    \/ RunOpenFile
    \/ RunReadFile
    \/ RunReturn
    \/ Connect
    \/ SetReadTimeout
    \/ SetWriteTimeout
    \/ FrameMessage
    \/ WriteAll
    \/ Flush
    \/ PeerRespond
    \/ Read
    \/ Finish

Spec == Init /\ [][Next]_vars

----------------------------------------------------------------------------
(* A peer that never stops sending *)

\* The bytes the endless peer sends, one per read: with no CR among them
\* the buffer never ends with the END sequence.
StreamBytes == ReplyBytes \ {13}

\* The peer, having the frame, starts a stream without end.
PeerStream ==
    /\ UNCHANGED <<runVars, elided>>
    /\ pc = "Read"
    /\ peer = "listening"
    /\ peer' = "streaming"
    /\ UNCHANGED <<pc, message, timeout, connects, stream, read_timeout,
                   write_timeout, framed_message, written, write_calls,
                   flushed, reply, pending, buffer, reads, ret, last_read,
                   response, result>>

\* The last n elements of s.
LastOf(s, n) == SubSeq(s, Len(s) - Min(n, Len(s)) + 1, Len(s))

\* One turn of the receive loop against the endless peer: the read returns
\* before the timeout with one more byte, or fails.  extend_from_slice
\* appends the byte to the Vec, which keeps every byte; the model holds the
\* last MaxKept of them, on which buffer.ends_with decides, and says so in
\* elided.
ReadStream ==
    /\ UNCHANGED runVars
    /\ pc = "Read"
    /\ peer = "streaming"
    /\ reads' = Min(reads + 1, MaxReads)
    /\ \E out \in {RetOk(<<b>>) : b \in StreamBytes} \cup ReadErrors :
          LET whole == Extend(buffer, out.bytes)
          IN  /\ ret' = out
              /\ elided' = (elided \/ Len(whole) > MaxKept)
              /\ ReadMatch(out, LastOf(whole, MaxKept))
    /\ UNCHANGED <<message, timeout, connects, read_timeout, write_timeout,
                   framed_message, written, write_calls, flushed, peer, reply,
                   pending, response>>

NextLive == Next \/ PeerStream \/ ReadStream

\* The exchange runs on its own thread and every call it makes returns: a
\* step that can be taken is taken.
LiveSpec == Init /\ [][NextLive]_vars /\ WF_vars(NextLive)

----------------------------------------------------------------------------
(* Properties *)

\* The receive loop was left by one of its three break statements.
LoopExited == last_read \in {"eof", "data", "would_block"}

\* s holds p as a contiguous run of bytes.
Contains(s, p) ==
    \E i \in 1..(Len(s) - Len(p) + 1) : SubSeq(s, i, i + Len(p) - 1) = p

\* Every byte of s is an ASCII byte, so s is UTF-8 text whatever it holds.
IsAscii(s) == \A i \in 1..Len(s) : s[i] < 128

\* C1. Empty-response classification: when the receive loop has exited with
\* an empty buffer (the first read returned Ok(0) or WouldBlock), the
\* exchange has failed with an error of kind TimedOut, never succeeded and
\* never failed with another kind.
C1_EmptyResponseTimedOut ==
    (pc \in Terminal /\ LoopExited /\ buffer = <<>>) =>
        /\ pc = "Failed"
        /\ result.tag = "Err"
        /\ result.kind = "TimedOut"

\* The peer stayed silent: the first read gave WouldBlock and the exchange
\* ended.
C1_Witness ==
    /\ pc = "Failed"
    /\ last_read = "would_block"
    /\ reads = 1
    /\ buffer = <<>>
    /\ result.kind = "TimedOut"

\* r is 0x0B, a payload, 0x1C 0x0D.
IsFrame(r) == Len(r) >= 3 /\ StartsWith(r, START) /\ EndsWith(r, END)

\* The payload of the frame r.
FramePayload(r) == SubSeq(r, 2, Len(r) - 2)

\* The exchange has ended, no read having failed, against a peer whose
\* reply is the frame of a payload that is UTF-8 text.
EndedOnFramedReply ==
    /\ pc \in Terminal
    /\ peer = "replying"
    /\ LoopExited
    /\ IsFrame(reply)
    /\ Utf8Valid(FramePayload(reply))

\* C2 as stated. Successful exchange: for every UTF-8 payload p, when the
\* peer replies with 0x0B p 0x1C 0x0D the exchange returns Ok(p), however
\* the reply is split across reads.
C2_SuccessfulExchange_Original ==
    EndedOnFramedReply => result = Ok(FramePayload(reply))

\* C2, amended. The exchange returns Ok(p) for every delivery of the frame
\* in which no read ends on a 0x1C 0x0D lying inside p, so that the whole
\* reply is read; a payload without 0x1C 0x0D is returned for every
\* delivery.
C2_SuccessfulExchange ==
    EndedOnFramedReply =>
        /\ ~Contains(FramePayload(reply), END) => pending = <<>>
        /\ pending = <<>> => result = Ok(FramePayload(reply))

\* The frame of "A" arrived one byte per read, 0x1C and 0x0D in separate
\* reads.
C2_Witness ==
    /\ pc = "Success"
    /\ reply = <<11, 65, 28, 13>>
    /\ reads = 4
    /\ result = Ok(<<65>>)

\* b without one leading 0x0B, and then without one trailing 0x1C 0x0D of
\* what remains.
ExpectedDeframe(b) ==
    LET first == IF Len(b) >= 1 /\ b[1] = 11 THEN 2 ELSE 1
        last == IF /\ Len(b) - first + 1 >= 2
                   /\ b[Len(b) - 1] = 28
                   /\ b[Len(b)] = 13
                THEN Len(b) - 2 ELSE Len(b)
    IN  SubSeq(b, first, last)

\* C3. Deframe tolerance: for a non-empty buffer the decoder is handed the
\* buffer without exactly one leading 0x0B (if there) and then without
\* exactly one trailing 0x1C 0x0D (if there); a missing START or END is no
\* error (the only failure is text that is not UTF-8); a reply with END and
\* without START decodes to its payload, and a reply of framing bytes only
\* gives the empty text.
C3_DeframeTolerance ==
    (pc \in Terminal /\ LoopExited /\ buffer # <<>>) =>
        /\ response = ExpectedDeframe(buffer)
        /\ result.tag = "Err" => result.kind = "InvalidData"
        /\ IsAscii(response) => result = Ok(response)
        /\ (~StartsWith(buffer, START) /\ EndsWith(buffer, END)
                /\ IsAscii(buffer))
             => result = Ok(SubSeq(buffer, 1, Len(buffer) - 2))
        /\ buffer \in {START, END, START \o END} => result = Ok(<<>>)

\* A reply without the START byte and with the END sequence was decoded.
C3_Witness ==
    /\ pc = "Success"
    /\ buffer = <<65, 28, 13>>
    /\ result = Ok(<<65>>)

\* C4. Framing round-trip: the deframe step applied to the frame the
\* exchange builds for a message gives the message back, byte for byte,
\* also for a message that begins with 0x0B, ends with 0x1C 0x0D or holds
\* those bytes inside; and an exchange that has read its own frame back
\* whole hands exactly the message to the decoder.
C4_FramingRoundTrip ==
    /\ framed_message # <<>> => Deframe(framed_message) = message
    /\ (/\ pc \in Terminal
        /\ LoopExited
        /\ peer = "replying"
        /\ reply = framed_message
        /\ pending = <<>>)
         => response = message /\ result = Ok(message)

\* The frame of a message that is itself the END sequence came back from
\* an echoing peer and was deframed.
C4_Witness ==
    /\ pc = "Success"
    /\ message = <<28, 13>>
    /\ reply = framed_message
    /\ buffer = <<11, 28, 13, 28, 13>>
    /\ result = Ok(message)

\* s is a prefix of t.
IsPrefix(s, t) == Len(s) <= Len(t) /\ SubSeq(t, 1, Len(s)) = s

\* C5. Outbound frame: what the socket has been given is at every moment a
\* prefix of 0x0B, the message bytes unchanged, 0x1C 0x0D, and once
\* write_all has returned Ok it is exactly that: nothing escaped, removed
\* or deduplicated, nothing before or after.
C5_OutboundFrameExact ==
    /\ IsPrefix(written, <<11>> \o message \o <<28, 13>>)
    /\ (pc = "Flush" \/ flushed) =>
          /\ written = <<11>> \o message \o <<28, 13>>
          /\ Len(written) = Len(message) + 3

\* A message that itself ends with 0x1C 0x0D was written and flushed.
C5_Witness ==
    /\ flushed
    /\ message = <<65, 28, 13>>
    /\ written = <<11, 65, 28, 13, 28, 13>>

\* C6. Invalid encoding: when the receive loop has exited with a non-empty
\* buffer whose deframed bytes are not UTF-8 text (any text holding 0xFF is
\* not), the exchange has failed with InvalidData; a success carries the
\* deframed bytes themselves, all of them and only for UTF-8 text, never a
\* repaired, truncated or substituted text.
C6_InvalidEncoding ==
    (pc \in Terminal /\ LoopExited /\ buffer # <<>>) =>
        /\ (~Utf8Valid(response) \/ \E i \in 1..Len(response) : response[i] = 255)
             => /\ pc = "Failed"
                /\ result = Err("InvalidData", "FromUtf8Error")
        /\ result.tag = "Ok" => result.text = response /\ Utf8Valid(response)

\* The peer sent bytes that are no UTF-8 text and closed.
C6_Witness ==
    /\ pc = "Failed"
    /\ buffer = <<255, 255>>
    /\ last_read = "eof"
    /\ result.kind = "InvalidData"

\* C7. Unreachable target: when the connect fails (the function has ended
\* and there never was a stream) the exchange returns the connect error as
\* the system gave it, not the TimedOut of the empty-response check, after
\* exactly one connect call and with no timeout set, no byte written and no
\* read done.
C7_ConnectFailure ==
    (pc \in Terminal /\ stream = "none") =>
        /\ pc = "Failed"
        /\ result.tag = "Err"
        /\ result \in ConnectErrors
        /\ result # EmptyResponseError
        /\ connects = 1
        /\ read_timeout = <<>> /\ write_timeout = <<>>
        /\ framed_message = <<>> /\ written = <<>> /\ write_calls = 0
        /\ reads = 0 /\ buffer = <<>>

\* The connection was refused.
C7_Witness ==
    /\ pc = "Failed"
    /\ stream = "none"
    /\ connects = 1
    /\ result = Err("ConnectionRefused", "os")

\* C8. Write-before-read ordering: once a read has been issued, the whole
\* frame has been written by one successful write_all and flushed; no read
\* happens while part of the frame is unwritten.
C8_WriteBeforeRead ==
    reads > 0 =>
        /\ write_calls = 1
        /\ written = <<11>> \o message \o <<28, 13>>
        /\ flushed

\* The first read has returned bytes of the reply.
C8_Witness ==
    /\ reads = 1
    /\ last_read = "data"
    /\ flushed
    /\ written = framed_message

\* The function has ended because write_all or flush failed.
WriteFailed == pc \in Terminal /\ write_calls > 0 /\ ~flushed

\* C10. Write failure aborts: when write_all or flush fails the exchange
\* has failed with that error (the socket may hold a part of the frame),
\* with no read done and nothing received, after one write_all call and one
\* connect call.
C10_WriteFailureAborts ==
    WriteFailed =>
        /\ pc = "Failed"
        /\ result.tag = "Err"
        /\ result.kind \in WriteErrKinds \cup FlushErrKinds
        /\ reads = 0 /\ last_read = "none" /\ buffer = <<>>
        /\ write_calls = 1
        /\ connects = 1

\* A short write: the socket took a part of the frame and write_all failed.
C10_Witness ==
    /\ pc = "Failed"
    /\ result.kind = "WriteZero"
    /\ written # <<>>
    /\ Len(written) < Len(framed_message)
    /\ reads = 0

\* C9 as stated. Termination: under fair scheduling every exchange ends in
\* Success or in Failed, whatever the peer does, a peer that keeps sending
\* bytes without an END sequence, each before the read timeout, included.
C9_Termination == (pc = "Connect") ~> (pc \in Terminal)

\* C11. run() loads the message before any network activity: a file that
\* cannot be opened or read ends run() with "Failed to open message file"
\* or "Failed to read message file" and no connect is ever made, whatever
\* the timeout; the exchange is entered only with the file's text as the
\* message; run() returns Ok only after the file was loaded and the
\* exchange succeeded, and "Failed to send HL7 message" when it failed
\* (after a success run() may also panic in println! and return nothing).
C11_RunLoadsFileFirst ==
    /\ (run_pc = "Done" /\ file.state = "missing") =>
          /\ run_result = RunErr("Failed to open message file")
          /\ connects = 0 /\ stream = "none" /\ pc = "Idle"
    /\ (run_pc = "Done" /\ file.state = "present"
            /\ \E i \in 1..Len(file.content) : file.content[i] = 255) =>
          /\ run_result = RunErr("Failed to read message file")
          /\ connects = 0 /\ stream = "none" /\ pc = "Idle"
    /\ (run_pc # "none" /\ (connects > 0 \/ pc # "Idle")) =>
          /\ file.state = "present"
          /\ message = file.content
          /\ run_pc \in {"Call", "Done", "Panicked"}
    /\ run_result.tag = "Ok" =>
          /\ pc = "Success"
          /\ file.state = "present" /\ message = file.content
    /\ (run_pc = "Done" /\ pc = "Failed") =>
          run_result = RunErr("Failed to send HL7 message")
    /\ (run_pc = "Done" /\ pc = "Success") => run_result = RunOk
    /\ run_pc = "Panicked" => pc = "Success" /\ run_result.tag = "None"

\* run() with a path that cannot be opened and a timeout of zero, as in
\* test_run_invalid_arguments.
C11_Witness ==
    /\ run_pc = "Done"
    /\ file.state = "missing"
    /\ timeout = 0
    /\ run_result = RunErr("Failed to open message file")
    /\ connects = 0

\* C12. END-sequence loop exit: no read is issued while the accumulated
\* buffer ends with 0x1C 0x0D, and a read after which it ends so is the last
\* turn of the loop, also when 0x1C came with one read and 0x0D with the
\* next.
C12_EndSequenceExit ==
    [][reads' # reads =>
          /\ ~EndsWith(buffer, <<28, 13>>)
          /\ EndsWith(buffer', <<28, 13>>) => pc' = "Finish"]_vars

\* 0x1C was the last byte of the third read, 0x0D came with the fourth, and
\* the loop was left.
C12_Witness ==
    /\ pc = "Finish"
    /\ reads = 4
    /\ last_read = "data"
    /\ buffer = <<11, 65, 28, 13>>
    /\ pending = <<>>

\* C13. Peer close or would-block after data: when the exchange has ended
\* after a read that returned Ok(0) or WouldBlock with bytes in the buffer
\* (which then do not end with 0x1C 0x0D), that read only ended the loop
\* and the exchange has deframed and decoded what was collected: it fails
\* only when that is no UTF-8 text, with InvalidData, and returns the text
\* otherwise (an unframed reply is returned as it is).
C13_CloseAfterDataNoError ==
    (/\ pc \in Terminal
     /\ ret \in {RetOk(<<>>), RetErr("WouldBlock")}
     /\ buffer # <<>>) =>
        /\ ~EndsWith(buffer, <<28, 13>>)
        /\ last_read = (IF ret.tag = "Ok" THEN "eof" ELSE "would_block")
        /\ response = ExpectedDeframe(buffer)
        /\ IsAscii(response) => pc = "Success" /\ result = Ok(response)
        /\ result.tag = "Err" =>
              /\ result.kind = "InvalidData"
              /\ ~IsAscii(response)
        /\ (buffer[1] # 11) => response = buffer

\* The peer sent an unframed "A" and closed, as the peer of the tests
\* does: the text came back.
C13_Witness ==
    /\ pc = "Success"
    /\ last_read = "eof"
    /\ reads = 2
    /\ buffer = <<65>>
    /\ result = Ok(<<65>>)

\* C14. Other read errors surface verbatim: when a read has failed with an
\* error that is not WouldBlock, the exchange has failed with that error,
\* kind and all, with nothing deframed or decoded and no byte of the buffer
\* returned, be the buffer empty or not; that read was the last.
C14_ReadErrorVerbatim ==
    (ret.tag = "Err" /\ ret.kind # "WouldBlock") =>
        /\ last_read = "error"
        /\ pc = "Failed"
        /\ result = Err(ret.kind, "os")
        /\ result.kind \in ReadErrKinds
        /\ response = <<>>
        /\ result.text = <<>>

\* The connection was reset after two bytes had been read.
C14_Witness ==
    /\ pc = "Failed"
    /\ last_read = "error"
    /\ buffer = <<11, 65>>
    /\ result = Err("ConnectionReset", "os")

\* The function has returned because one of the two timeout setters failed.
SetTimeoutFailed ==
    /\ pc = "Failed"
    /\ stream = "closed"
    /\ read_timeout = <<>> \/ write_timeout = <<>>

\* C15. Timeouts are configured before any data transfer: once write_all
\* has been called, a byte written or a read issued, the read timeout and
\* the write timeout are both set, to config.timeout; when a setter fails
\* the exchange fails with nothing framed, written or read.
C15_TimeoutsBeforeTransfer ==
    /\ (write_calls > 0 \/ written # <<>> \/ reads > 0) =>
          /\ timeout > 0
          /\ read_timeout = <<timeout>>
          /\ write_timeout = <<timeout>>
    /\ SetTimeoutFailed =>
          /\ result \in SetTimeoutErrors(timeout)
          /\ framed_message = <<>> /\ written = <<>> /\ write_calls = 0
          /\ reads = 0 /\ buffer = <<>>

\* A read was issued in an exchange with a timeout of one second: both
\* timeouts are one second.
C15_Witness ==
    /\ reads > 0
    /\ timeout = 1
    /\ read_timeout = <<1>>
    /\ write_timeout = <<1>>

\* The phase of the exchange, in the order Idle, Connecting (the connect
\* and the set-up of the socket), Sending, Receiving, Decoding, terminal.
Phase(p) ==
    CASE p = "Idle" -> 0
      [] p \in {"Connect", "SetReadTimeout", "SetWriteTimeout"} -> 1
      [] p \in {"Frame", "WriteAll", "Flush"} -> 2
      [] p = "Read" -> 3
      [] p = "Finish" -> 4
      [] p \in Terminal -> 5

\* C16. Forward-only state machine: no step takes the exchange to an
\* earlier phase or out of a terminal state; there is at most one connect
\* call and at most one write_all call, made in their own phases, and no
\* byte is written once a read has been issued.
C16_ForwardOnly ==
    [][/\ Phase(pc') >= Phase(pc)
       /\ pc \in Terminal => pc' = pc /\ result' = result
       /\ connects' <= 1 /\ write_calls' <= 1
       /\ connects' # connects => Phase(pc) = 1
       /\ (write_calls' # write_calls \/ written' # written)
             => Phase(pc) = 2 /\ reads = 0
       /\ reads' # reads => Phase(pc) = 3]_vars

\* A whole exchange: one connect, one write_all, several reads, success.
C16_Witness ==
    /\ pc = "Success"
    /\ connects = 1
    /\ write_calls = 1
    /\ reads = 3
    /\ stream = "closed"

\* C17. Zero timeout is rejected: with a timeout of zero the exchange gets
\* no further than the first timeout setter; it fails there with the
\* InvalidInput of the zero duration, after the connect, with no timeout
\* set, nothing written and nothing read.
C17_ZeroTimeoutRejected ==
    timeout = 0 =>
        /\ pc \in {"Idle", "Connect", "SetReadTimeout", "Failed"}
        /\ read_timeout = <<>> /\ write_timeout = <<>>
        /\ framed_message = <<>> /\ written = <<>> /\ write_calls = 0
        /\ reads = 0 /\ buffer = <<>>
        /\ (pc = "Failed" /\ stream = "closed") =>
              /\ connects = 1
              /\ result = Err("InvalidInput", "cannot set a 0 duration timeout")

\* run() with a timeout of 0 seconds and a file that holds a message: the
\* exchange connected and failed at set_read_timeout.
C17_Witness ==
    /\ timeout = 0
    /\ run_pc = "Done"
    /\ pc = "Failed"
    /\ stream = "closed"
    /\ connects = 1
    /\ read_timeout = <<>>
    /\ run_result = RunErr("Failed to send HL7 message")

\* C18. The response buffer is an append-only prefix of the peer's byte
\* stream: it is empty until the first read; a step that is no read leaves
\* it alone; a read appends to it exactly the bytes it returned, the next
\* ones of the stream, at most 4096 and at least one when the read returned
\* data; so buffer and the bytes still to come always make up the stream,
\* nothing dropped, doubled or reordered.
C18_BufferAppendOnly ==
    [][/\ IsPrefix(buffer, buffer')
       /\ reads' = 0 => buffer' = <<>>
       /\ reads' = reads => buffer' = buffer
       /\ peer' = "replying" => buffer' \o pending' = reply'
       /\ reads' # reads =>
             LET n == Len(buffer') - Len(buffer)
             IN  /\ n >= 0 /\ n <= 4096
                 /\ buffer' = buffer \o SubSeq(pending, 1, n)
                 /\ pending' = SubSeq(pending, n + 1, Len(pending))
                 /\ last_read' = "data" <=> n >= 1]_vars

\* Two reads have brought the first three bytes of a four-byte reply.
C18_Witness ==
    /\ pc = "Read"
    /\ reads = 2
    /\ reply = <<11, 65, 28, 13>>
    /\ buffer = <<11, 65, 28>>
    /\ pending = <<13>>

\* The stream r ends with 0x1C 0x0D and holds the sequence nowhere else.
EndOnlyAtEnd(r) ==
    /\ EndsWith(r, <<28, 13>>)
    /\ ~Contains(SubSeq(r, 1, Len(r) - 1), <<28, 13>>)

\* What the exchange returns for the whole stream r, read in one piece.
ResultOfStream(r) ==
    LET text == ExpectedDeframe(r)
    IN  IF Utf8Valid(text) THEN Ok(text)
        ELSE Err("InvalidData", "FromUtf8Error")

\* C19. Segmentation independence: for a reply stream in which 0x1C 0x0D
\* occurs only as the last two bytes, the result of the exchange is a
\* function of the stream alone: however the stream is split into reads
\* (none of which fails),
\* the whole of it is read and the result is the one of reading it in one
\* piece, so two runs that differ only in the split return equal results.
C19_SegmentationIndependence ==
    (/\ pc \in Terminal
     /\ peer = "replying"
     /\ LoopExited
     /\ EndOnlyAtEnd(reply)) =>
        /\ pending = <<>>
        /\ buffer = reply
        /\ result = ResultOfStream(reply)

\* A reply of 0x1C 0x0D alone came in two reads, one byte each.
C19_Witness ==
    /\ pc = "Success"
    /\ reply = <<28, 13>>
    /\ reads = 2
    /\ result = Ok(<<>>)

====
